---- MODULE Spec2Model ----
(***************************************************************************)
(* Model of the LangGraph orchestration in src/Main.py: the FrontendState  *)
(* record, the six nodes, the two routing predicates and the graph wiring  *)
(* of build_workflow.  Python strings are TLA+ strings; "in" is substring  *)
(* search and lower() maps characters, as the code computes them.          *)
(*                                                                         *)
(* An Optional value is None (the empty set) or Some(v) (the singleton).   *)
(***************************************************************************)
EXTENDS Integers, Sequences, FiniteSets, TLC

VARIABLES state, node, api_key, trace, prompts, replies, peer

(* state, node: the run's state dict and the node to execute next;        *)
(* api_key: the credential in the environment; trace: the nodes executed; *)
(* prompts, replies: the calls made to the generation service and their   *)
(* outcomes; peer: a second run of the same compiled graph, when there is *)
(* one (None otherwise)                                                   *)
vars == <<state, node, api_key, trace, prompts, replies, peer>>

-----------------------------------------------------------------------------
(* Optional values *)

None == {}

Some(v) == {v}

Val(o) == CHOOSE v \in o : TRUE

(* str(x) of an Optional[str] inside an f-string *)
Fmt(o) == IF o = None THEN "None" ELSE Val(o)

-----------------------------------------------------------------------------
(* Python string primitives *)

LowerChar(c) ==
    CASE c = "A" -> "a" [] c = "B" -> "b" [] c = "C" -> "c" [] c = "D" -> "d"
      [] c = "E" -> "e" [] c = "F" -> "f" [] c = "G" -> "g" [] c = "H" -> "h"
      [] c = "I" -> "i" [] c = "J" -> "j" [] c = "K" -> "k" [] c = "L" -> "l"
      [] c = "M" -> "m" [] c = "N" -> "n" [] c = "O" -> "o" [] c = "P" -> "p"
      [] c = "Q" -> "q" [] c = "R" -> "r" [] c = "S" -> "s" [] c = "T" -> "t"
      [] c = "U" -> "u" [] c = "V" -> "v" [] c = "W" -> "w" [] c = "X" -> "x"
      [] c = "Y" -> "y" [] c = "Z" -> "z" [] OTHER -> c

RECURSIVE LowerRange(_, _, _)
(* the lower-cased characters lo..hi of s, in order *)
LowerRange(s, lo, hi) ==
    IF lo > hi THEN ""
    ELSE IF lo = hi THEN LowerChar(SubSeq(s, lo, lo))
    ELSE LowerRange(s, lo, (lo + hi) \div 2)
         \o LowerRange(s, (lo + hi) \div 2 + 1, hi)

(* s.lower(): character by character *)
Lower(s) == LowerRange(s, 1, Len(s))

(* sub in s *)
Contains(s, sub) ==
    \E t \in {s} :
        \E i \in 1..(Len(t) - Len(sub) + 1) :
            SubSeq(t, i, i + Len(sub) - 1) = sub

(* sep.join(items) *)
RECURSIVE Join(_, _)
Join(sep, items) ==
    IF Len(items) = 0 THEN ""
    ELSE IF Len(items) = 1 THEN items[1]
    ELSE items[1] \o sep \o Join(sep, Tail(items))

-----------------------------------------------------------------------------
(* Program constants *)

DANGEROUS_KEYWORDS ==
    << "delete all", "drop table", "rm -rf",
       "format disk", "shutdown", "hack",
       "steal", "inject", "bypass security" >>

MAX_RETRIES == 2

END == "__end__"

RAISED == "__raised__"

MockCode ==
    "\n<form class='login-form'>\n  <input type='email' placeholder='Email' />\n  <input type='password' placeholder='Password' />\n  <button type='submit'>Login</button>\n</form>\n"

-----------------------------------------------------------------------------
(* Inputs of the model *)

(* longest run the unmodified graph can make is 10 node executions *)
MaxSteps == 12

Requests ==
    { "Build a login page with email and password",
      "rm -rf all project files",
      "please rm -rf all project files",
      "Please DROP TABLE users",
      "shutdown then delete all",
      "steal it, then hack and inject",
      "a Hackathon page",
      "Make a signup form",
      "" }

(* texts the generation service may return *)
Texts ==
    { "",
      "<form><input type='email'/><button>Go</button></form>",
      "<FORM><INPUT TYPE='SUBMIT'></FORM>",
      "<form></form>",
      "<div>hello</div>" }

(* str(e) of the exceptions the generation call may raise *)
Failures == { "Connection error.", "" }

(* outcomes of one external call *)
Responses ==
    [ok : {TRUE}, text : Texts] \cup [ok : {FALSE}, msg : Failures]

(* values of os.environ.get("ANTHROPIC_API_KEY") *)
ApiKeys == { None, Some(""), Some("sk-test") }

FreshState(request) ==
    [ user_request     |-> request,
      figma_design     |-> None,
      generated_code   |-> None,
      test_result      |-> None,
      guardrail_passed |-> None,
      retry_count      |-> 0,
      error            |-> None ]

-----------------------------------------------------------------------------
(* Nodes: each takes the state dict and returns the new state dict *)

(* the scan without the early return: the last keyword found wins *)
FirstKeyword_Last(request, i) ==
    LET found == {j \in i..Len(DANGEROUS_KEYWORDS) :
                     Contains(request, DANGEROUS_KEYWORDS[j])}
    IN  IF found = {} THEN 0
        ELSE CHOOSE j \in found : \A k \in found : k <= j

RECURSIVE FirstKeyword(_, _)
(* the "for keyword in DANGEROUS_KEYWORDS" scan from position i: the index *)
(* of the first keyword found in the lower-cased request, 0 if none is     *)
FirstKeyword(request, i) ==
    IF i > Len(DANGEROUS_KEYWORDS) THEN 0
    ELSE IF Contains(request, DANGEROUS_KEYWORDS[i]) THEN i
    ELSE FirstKeyword(request, i + 1)

BlockedMessage(keyword) ==
    "Request blocked by guardrail: '" \o keyword \o "' is not allowed."

(* guardrail_node comparing the request as typed, without lower() *)
guardrail_node_CaseSensitive(st) ==
    LET k == FirstKeyword(st.user_request, 1)
    IN  IF k # 0
        THEN [st EXCEPT !.guardrail_passed = Some(FALSE),
                        !.error = Some(BlockedMessage(DANGEROUS_KEYWORDS[k]))]
        ELSE [st EXCEPT !.guardrail_passed = Some(TRUE)]

(* guardrail_node adding its message to an error already in the state *)
guardrail_node_Accumulates(st) ==
    LET request == Lower(st.user_request)
        k == FirstKeyword(request, 1)
    IN  IF k # 0
        THEN [st EXCEPT !.guardrail_passed = Some(FALSE),
                        !.error = Some((IF st.error = None THEN ""
                                        ELSE Val(st.error) \o " ")
                                       \o BlockedMessage(DANGEROUS_KEYWORDS[k]))]
        ELSE [st EXCEPT !.guardrail_passed = Some(TRUE)]

guardrail_node(st) ==
    LET request == Lower(st.user_request)
        k == FirstKeyword(request, 1)
    IN  IF k # 0
        THEN [st EXCEPT !.guardrail_passed = Some(FALSE),
                        !.error = Some(BlockedMessage(DANGEROUS_KEYWORDS[k]))]
        ELSE [st EXCEPT !.guardrail_passed = Some(TRUE)]

(* should_proceed testing "is None" instead of falsiness *)
should_proceed_IsNone(st) ==
    IF st.guardrail_passed = None THEN "blocked" ELSE "proceed"

(* should_proceed testing "is False": an unset flag proceeds *)
should_proceed_IsFalse(st) ==
    IF st.guardrail_passed = Some(FALSE) THEN "blocked" ELSE "proceed"

should_proceed(st) ==
    IF st.guardrail_passed # Some(TRUE) THEN "blocked" ELSE "proceed"

Design(request) ==
    "\n    Design spec for: " \o request
    \o "\n    - Layout: centered login form"
    \o "\n    - Components: email input, password input, submit button"
    \o "\n    - Colors: #FFFFFF background, #2563EB primary button"
    \o "\n    - Font: Inter 16px\n    "

(* figma_node returning the design under a key the other nodes do not read *)
figma_node_WrongKey(st) == st

figma_node(st) ==
    [st EXCEPT !.figma_design = Some(Design(st.user_request))]

(* the mode test written "api_key is None": an empty credential calls the service *)
MockMode_IsNone(key) == key = None

(* "if not api_key": unset or empty *)
MockMode(key) == key = None \/ key = Some("")

Prompt(st) ==
    "\n    Based on this UI design spec, generate clean HTML + CSS code."
    \o "\n    Only output the code, no explanation."
    \o "\n\n    Design spec:\n    " \o Fmt(st.figma_design) \o "\n    "

(* claude_code_node counting a failed call as a retry of its own *)
claude_code_node_CountsFailure(st, key, r) ==
    IF MockMode(key)
    THEN [st EXCEPT !.generated_code = Some(MockCode), !.error = None]
    ELSE IF r.ok
         THEN [st EXCEPT !.generated_code = Some(r.text), !.error = None]
         ELSE [st EXCEPT !.error = Some(r.msg),
                         !.retry_count = st.retry_count + 1]

(* claude_code_node discarding the previous attempt's code when the call fails *)
claude_code_node_ClearsOnFailure(st, key, r) ==
    IF MockMode(key)
    THEN [st EXCEPT !.generated_code = Some(MockCode), !.error = None]
    ELSE IF r.ok
         THEN [st EXCEPT !.generated_code = Some(r.text), !.error = None]
         ELSE [st EXCEPT !.generated_code = None, !.error = Some(r.msg)]

(* claude_code_node keeping an error already recorded when the call fails again *)
claude_code_node_KeepsFirstError(st, key, r) ==
    IF MockMode(key)
    THEN [st EXCEPT !.generated_code = Some(MockCode), !.error = None]
    ELSE IF r.ok
         THEN [st EXCEPT !.generated_code = Some(r.text), !.error = None]
         ELSE [st EXCEPT !.error = IF st.error = None THEN Some(r.msg)
                                   ELSE st.error]

(* claude_code_node leaving an earlier error in place when the call succeeds *)
claude_code_node_KeepsErrorOnSuccess(st, key, r) ==
    IF MockMode(key)
    THEN [st EXCEPT !.generated_code = Some(MockCode), !.error = None]
    ELSE IF r.ok
         THEN [st EXCEPT !.generated_code = Some(r.text)]
         ELSE [st EXCEPT !.error = Some(r.msg)]

(* r is the outcome of client.messages.create, consulted in service mode only *)
claude_code_node(st, key, r) ==
    IF MockMode(key)
    THEN [st EXCEPT !.generated_code = Some(MockCode), !.error = None]
    ELSE IF r.ok
         THEN [st EXCEPT !.generated_code = Some(r.text), !.error = None]
         ELSE [st EXCEPT !.error = Some(r.msg)]

(* the checks chained with elif: only the first missing marker is reported *)
Issues_FirstOnly(code) ==
    IF ~Contains(code, "<form") /\ ~Contains(Lower(code), "form")
    THEN <<"Missing form element">>
    ELSE IF ~Contains(Lower(code), "input")
    THEN <<"Missing input fields">>
    ELSE IF ~Contains(Lower(code), "button") /\ ~Contains(Lower(code), "submit")
    THEN <<"Missing submit button">>
    ELSE <<>>

Issues(code) ==
    (IF ~Contains(code, "<form") /\ ~Contains(Lower(code), "form")
       THEN <<"Missing form element">> ELSE <<>>)
    \o (IF ~Contains(Lower(code), "input")
       THEN <<"Missing input fields">> ELSE <<>>)
    \o (IF ~Contains(Lower(code), "button") /\ ~Contains(Lower(code), "submit")
       THEN <<"Missing submit button">> ELSE <<>>)

test_node(st) ==
    LET code == IF st.generated_code = None THEN "" ELSE Val(st.generated_code)
    IN  IF Len(code) = 0
        THEN [st EXCEPT !.test_result = Some("FAILED: No code was generated")]
        ELSE IF Len(Issues(code)) # 0
             THEN [st EXCEPT !.test_result =
                                Some("FAILED: " \o Join(", ", Issues(code)))]
             ELSE [st EXCEPT !.test_result = Some("All tests passed")]

blocked_node(st) == st

(* should_retry without the ceiling comparison *)
should_retry_NoCeiling(st) ==
    IF st.test_result = None THEN "TypeError"
    ELSE IF Contains(Val(st.test_result), "passed") THEN "done"
    ELSE "retry"

(* should_retry comparing with > instead of >= *)
should_retry_Greater(st) ==
    IF st.test_result = None THEN "TypeError"
    ELSE IF Contains(Val(st.test_result), "passed") THEN "done"
    ELSE IF st.retry_count > MAX_RETRIES THEN "done"
    ELSE "retry"

(* should_retry giving up one retry early *)
should_retry_Early(st) ==
    IF st.test_result = None THEN "TypeError"
    ELSE IF Contains(Val(st.test_result), "passed") THEN "done"
    ELSE IF st.retry_count >= MAX_RETRIES - 1 THEN "done"
    ELSE "retry"

(* should_retry searching for "Passed", which no verdict contains *)
should_retry_Capital(st) ==
    IF st.test_result = None THEN "TypeError"
    ELSE IF Contains(Val(st.test_result), "Passed") THEN "done"
    ELSE IF st.retry_count >= MAX_RETRIES THEN "done"
    ELSE "retry"

(* "passed" in None raises TypeError *)
should_retry(st) ==
    IF st.test_result = None THEN "TypeError"
    ELSE IF Contains(Val(st.test_result), "passed") THEN "done"
    ELSE IF st.retry_count >= MAX_RETRIES THEN "done"
    ELSE "retry"

(* increment_retry discarding the previous attempt's code *)
increment_retry_ClearsCode(st) ==
    [st EXCEPT !.retry_count = st.retry_count + 1, !.generated_code = None]

increment_retry(st) ==
    [st EXCEPT !.retry_count = st.retry_count + 1]

-----------------------------------------------------------------------------
(* build_workflow: the graph *)

Nodes ==
    {"guardrail", "figma", "claude_code", "test", "blocked", "increment_retry"}

EntryPoint == "guardrail"

(* the retry edge wired back to the entry point *)
Edge_RetryToEntry(n) ==
    CASE n = "figma"           -> "claude_code"
      [] n = "claude_code"     -> "test"
      [] n = "blocked"         -> END
      [] n = "increment_retry" -> "guardrail"

(* add_edge *)
Edge(n) ==
    CASE n = "figma"           -> "claude_code"
      [] n = "claude_code"     -> "test"
      [] n = "blocked"         -> END
      [] n = "increment_retry" -> "claude_code"

(* add_conditional_edges("guardrail", should_proceed, ...) *)
GuardrailEdges(label) ==
    CASE label = "proceed" -> "figma"
      [] label = "blocked" -> "blocked"

(* the retry label wired straight back to claude_code, past increment_retry *)
TestEdges_RetryStraight(label) ==
    CASE label = "done"  -> END
      [] label = "retry" -> "claude_code"
      [] OTHER           -> RAISED

(* add_conditional_edges("test", should_retry, ...); an exception in the *)
(* routing function ends the run                                         *)
TestEdges(label) ==
    CASE label = "done"  -> END
      [] label = "retry" -> "increment_retry"
      [] OTHER           -> RAISED

-----------------------------------------------------------------------------
(* The run: app.invoke(fresh state) *)

TypeOK ==
    /\ node \in Nodes \cup {END, RAISED}
    /\ api_key \in ApiKeys
    /\ state.user_request \in Requests
    /\ state.retry_count \in Nat
    /\ state.guardrail_passed \in {None, Some(TRUE), Some(FALSE)}
    /\ Len(trace) <= MaxSteps

Init ==
    /\ \E request \in Requests : state = FreshState(request)
    /\ api_key \in ApiKeys
    /\ node = EntryPoint
    /\ trace = <<>>
    /\ prompts = <<>>
    /\ replies = <<>>
    /\ peer = None

(* every node execution is recorded in trace *)
Ran(n) ==
    /\ node = n
    /\ Len(trace) < MaxSteps
    /\ trace' = Append(trace, n)
    /\ UNCHANGED <<api_key, peer>>

Guardrail ==
    /\ Ran("guardrail")
    /\ state' = guardrail_node(state)
    /\ node' = GuardrailEdges(should_proceed(state'))
    /\ UNCHANGED <<prompts, replies>>

Figma ==
    /\ Ran("figma")
    /\ state' = figma_node(state)
    /\ node' = Edge("figma")
    /\ UNCHANGED <<prompts, replies>>

ClaudeCode ==
    /\ Ran("claude_code")
    /\ \E r \in Responses :
          /\ state' = claude_code_node(state, api_key, r)
          /\ replies' = IF MockMode(api_key) THEN replies
                        ELSE Append(replies, r)
    /\ prompts' = IF MockMode(api_key) THEN prompts
                  ELSE Append(prompts, Prompt(state))
    /\ node' = Edge("claude_code")

Test ==
    /\ Ran("test")
    /\ state' = test_node(state)
    /\ node' = TestEdges(should_retry(state'))
    /\ UNCHANGED <<prompts, replies>>

Blocked ==
    /\ Ran("blocked")
    /\ state' = blocked_node(state)
    /\ node' = Edge("blocked")
    /\ UNCHANGED <<prompts, replies>>

IncrementRetry ==
    /\ Ran("increment_retry")
    /\ state' = increment_retry(state)
    /\ node' = Edge("increment_retry")
    /\ UNCHANGED <<prompts, replies>>

Next ==
    \/ Guardrail
    \/ Figma
    \/ ClaudeCode
    \/ Test
    \/ Blocked
    \/ IncrementRetry

Spec == Init /\ [][Next]_vars

(* invoke drives the graph until END: a runnable node does run *)
FairSpec == Spec /\ WF_vars(Next)

-----------------------------------------------------------------------------
(* The post-guard routing on its own: should_proceed applied to any state  *)
(* dict, also ones no run produces (guardrail_passed unset)                *)

AnyStates ==
    [ user_request     : Requests,
      figma_design     : {None, Some(Design("Make a signup form"))},
      generated_code   : {None, Some(MockCode)} \cup {Some(t) : t \in Texts},
      test_result      : {None, Some("All tests passed"),
                          Some("FAILED: No code was generated")},
      guardrail_passed : {None, Some(TRUE), Some(FALSE)},
      retry_count      : 0..MAX_RETRIES,
      error            : {None} \cup {Some(f) : f \in Failures} ]

InitRouting ==
    /\ state \in AnyStates
    /\ api_key \in ApiKeys
    /\ node = "should_proceed"
    /\ trace = <<>>
    /\ prompts = <<>>
    /\ replies = <<>>
    /\ peer = None

RouteAfterGuardrail ==
    /\ node = "should_proceed"
    /\ node' = GuardrailEdges(should_proceed(state))
    /\ UNCHANGED <<state, api_key, trace, prompts, replies, peer>>

NextRouting == RouteAfterGuardrail

RoutingSpec == InitRouting /\ [][NextRouting]_vars

-----------------------------------------------------------------------------
(* Vocabulary of the properties *)

PassVerdict == "All tests passed"

IsFailure(verdict) ==
    verdict # None /\ Len(Val(verdict)) >= 7 /\ SubSeq(Val(verdict), 1, 7) = "FAILED:"

IsPass(verdict) == verdict = Some(PassVerdict)

Accepted == state.guardrail_passed = Some(TRUE)

(* the request contains a denylisted phrase, compared case-insensitively *)
HasDenylisted(request) ==
    \E i \in 1..Len(DANGEROUS_KEYWORDS) :
        Contains(Lower(request), DANGEROUS_KEYWORDS[i])

Count(n) == Cardinality({i \in 1..Len(trace) : trace[i] = n})

-----------------------------------------------------------------------------
(* C1: every run from a fresh state reaches the terminal node, whatever   *)
(* the request and whatever the generation service does on each call; no  *)
(* step raises and no state is stuck at a non-terminal node.              *)
C1_RunTerminates == [](node # RAISED) /\ <>(node = END)

C1_Witness ==
    /\ node = END
    /\ Len(prompts) = MAX_RETRIES + 1
    /\ state.error # None
    /\ state.retry_count = MAX_RETRIES

(* C2: retry_count stays within 0..MAX_RETRIES, and increment_retry is    *)
(* never entered with retry_count already at the ceiling.                 *)
C2_RetryCountBounded ==
    /\ state.retry_count \in 0..MAX_RETRIES
    /\ node = "increment_retry" => state.retry_count < MAX_RETRIES

C2_Witness ==
    /\ node = "test"
    /\ state.retry_count = MAX_RETRIES
    /\ Count("increment_retry") = MAX_RETRIES

(* C3: an accepted run all of whose validations fail ends, with           *)
(* retry_count exactly MAX_RETRIES and a failing verdict.                 *)
C3_AlwaysFailingEndsAtCeiling ==
    (<>Accepted /\ [](state.test_result = None \/ IsFailure(state.test_result)))
        => <>(/\ node = END
              /\ state.retry_count = MAX_RETRIES
              /\ IsFailure(state.test_result))

C3_Witness ==
    /\ node = END
    /\ Accepted
    /\ state.generated_code = Some("<form></form>")
    /\ state.test_result =
           Some("FAILED: Missing input fields, Missing submit button")
    /\ state.retry_count = MAX_RETRIES
    /\ Count("test") = MAX_RETRIES + 1

(* C4: a request containing a denylisted phrase in any letter case ends   *)
(* with guardrail_passed False, a non-empty error naming the phrase of    *)
(* scenario B, and generated_code and test_result unset.                  *)
C4_DenylistedBlocked ==
    (node = END /\ HasDenylisted(state.user_request)) =>
        /\ state.guardrail_passed = Some(FALSE)
        /\ state.error # None
        /\ Len(Val(state.error)) > 0
        /\ state.generated_code = None
        /\ state.test_result = None
        /\ state.user_request = "please rm -rf all project files"
               => Contains(Val(state.error), "rm -rf")

C4_Witness ==
    /\ node = END
    /\ state.user_request = "Please DROP TABLE users"
    /\ state.guardrail_passed = Some(FALSE)

(* C5: once the guard has rejected, the only nodes executed are guardrail *)
(* then blocked, then the run ends: figma, claude_code, test and          *)
(* increment_retry never run.                                             *)
C5_BlockedRunsNothing ==
    state.guardrail_passed = Some(FALSE) =>
        \/ trace = <<"guardrail">> /\ node = "blocked"
        \/ trace = <<"guardrail", "blocked">> /\ node = END

C5_Witness ==
    /\ state.guardrail_passed = Some(FALSE)
    /\ trace = <<"guardrail", "blocked">>
    /\ node = END

(* C6: guardrail is the first node executed and is executed exactly once; *)
(* guardrail_passed is unset before it and keeps the value the guard gave *)
(* it through every later step.                                           *)
C6_GuardOrder ==
    /\ trace = <<>> => (node = "guardrail" /\ state.guardrail_passed = None)
    /\ trace # <<>> =>
         /\ trace[1] = "guardrail"
         /\ Count("guardrail") = 1
         /\ node # "guardrail"
         /\ state.guardrail_passed # None

C6_GuardOnce ==
    /\ []C6_GuardOrder
    /\ [][state.guardrail_passed # None
            => state'.guardrail_passed = state.guardrail_passed]_vars

C6_Witness ==
    /\ Count("guardrail") = 1
    /\ Count("claude_code") = MAX_RETRIES + 1
    /\ Accepted

(* C7: the post-guard routing proceeds to figma exactly when               *)
(* guardrail_passed is True; False and unset both go to blocked.           *)
C7_ProceedOnlyOnTrue ==
    [][node = "should_proceed" =>
          /\ node' = "figma" <=> state.guardrail_passed = Some(TRUE)
          /\ node' = "blocked" <=> state.guardrail_passed \in {None, Some(FALSE)}
      ]_vars

C7_Witness ==
    /\ node = "blocked"
    /\ state.guardrail_passed = None

(* C8: after test the run ends exactly when the verdict is the pass       *)
(* verdict or retry_count is at the ceiling, and otherwise goes to         *)
(* increment_retry; an accepted run never ends failing with retries left,  *)
(* and claude_code never runs after a pass.                                *)
C8_EndState ==
    /\ (node = END /\ Accepted) =>
          (IsPass(state.test_result) \/ state.retry_count = MAX_RETRIES)
    /\ node \in {"increment_retry", "claude_code"} => ~IsPass(state.test_result)

C8_DoneIffPassOrCeiling ==
    /\ []C8_EndState
    /\ [][node = "test" =>
            /\ node' = END <=> (IsPass(state'.test_result)
                                 \/ state'.retry_count >= MAX_RETRIES)
            /\ node' # END => node' = "increment_retry"
            /\ IsPass(state'.test_result) \/ IsFailure(state'.test_result)
        ]_vars

C8_Witness ==
    /\ node = END
    /\ IsPass(state.test_result)
    /\ state.retry_count = 1

(* C9: increment_retry adds exactly 1 to retry_count and changes no other *)
(* field; figma runs once, so every call of the service gets the prompt   *)
(* built from the one design.                                             *)
C9_DesignStable ==
    /\ Count("figma") <= 1
    /\ node = "claude_code" => state.figma_design # None
    /\ \A i \in 1..Len(prompts) :
          /\ prompts[i] = prompts[1]
          /\ Contains(prompts[i], "Design spec for: " \o state.user_request)

C9_RetryFrame ==
    /\ []C9_DesignStable
    /\ [][node = "increment_retry" =>
            /\ state'.retry_count = state.retry_count + 1
            /\ state'.figma_design = state.figma_design
            /\ state'.user_request = state.user_request
            /\ state'.generated_code = state.generated_code
            /\ state'.test_result = state.test_result
            /\ state'.guardrail_passed = state.guardrail_passed
            /\ state'.error = state.error
            /\ node' = "claude_code"
        ]_vars

C9_Witness ==
    /\ node = "claude_code"
    /\ state.retry_count = MAX_RETRIES
    /\ state.generated_code = Some("<div>hello</div>")
    /\ state.error = Some("Connection error.")
    /\ Len(prompts) = MAX_RETRIES

(* C10: retry_count never decreases, and only increment_retry changes it. *)
C10_OnlyIncrementChanges ==
    [][/\ state'.retry_count >= state.retry_count
       /\ state'.retry_count # state.retry_count => node = "increment_retry"
      ]_vars

C10_Witness ==
    /\ node = END
    /\ state.retry_count = MAX_RETRIES
    /\ state.error = Some("Connection error.")
    /\ Accepted

-----------------------------------------------------------------------------
(* the outcome of the latest call of the generation service *)
LastReply == replies[Len(replies)]

(* the latest generation step called the service and the call failed *)
LastCallFailed == Len(replies) > 0 /\ ~LastReply.ok

(* C11: when the external call of a service-mode generation fails, error  *)
(* becomes the failure description, generated_code keeps the value it had *)
(* before the step (None on the first attempt, the previous text on a     *)
(* retry), and the run goes on to test, which judges that unchanged code. *)
C11_FailedCallKeepsCode ==
    [][/\ (node = "claude_code" /\ LastCallFailed')
           => /\ ~MockMode(api_key)
              /\ state'.error = Some(LastReply'.msg)
              /\ state'.generated_code = state.generated_code
              /\ state.retry_count = 0 => state'.generated_code = None
              /\ node' = "test"
       /\ (node = "test" /\ LastCallFailed)
           => /\ state'.generated_code = state.generated_code
              /\ state.generated_code = None
                   => state'.test_result = Some("FAILED: No code was generated")
              /\ state.test_result # None
                   => state'.test_result = state.test_result
      ]_vars

C11_Witness ==
    /\ node = "increment_retry"
    /\ state.retry_count = 1
    /\ LastCallFailed
    /\ state.error = Some("Connection error.")
    /\ state.generated_code = Some("<form></form>")
    /\ state.test_result =
           Some("FAILED: Missing input fields, Missing submit button")

-----------------------------------------------------------------------------
(* The validation on its own: the test node run on any generated code *)

(* every combination of present and missing markers, in both letter cases *)
Markups ==
    { MockCode,
      "<form><input/><button>ok</button></form>",
      "<FORM><INPUT TYPE='SUBMIT'></FORM>",
      "<form><input/></form>",
      "<Form><Input></Form>",
      "<form><button>ok</button></form>",
      "<input/><button>ok</button>",
      "<form></form>",
      "<input/>",
      "<button>ok</button>",
      "<a>Submit</a>",
      "<div>hello</div>",
      "x" }

InitValidation ==
    /\ \E request \in Requests, n \in 0..MAX_RETRIES,
          code \in {None, Some("")} \cup {Some(m) : m \in Markups} :
            state = [FreshState(request) EXCEPT
                        !.guardrail_passed = Some(TRUE),
                        !.figma_design = Some(Design(request)),
                        !.generated_code = code,
                        !.retry_count = n]
    /\ api_key \in ApiKeys
    /\ node = "test"
    /\ trace = <<>>
    /\ prompts = <<>>
    /\ replies = <<>>
    /\ peer = None

NextValidation == Test /\ trace = <<>>

ValidationSpec == InitValidation /\ [][NextValidation]_vars

(* number of places where sub occurs in s *)
Occurrences(s, sub) ==
    Cardinality({i \in 1..(Len(s) - Len(sub) + 1) :
                    SubSeq(s, i, i + Len(sub) - 1) = sub})

HasFormMarker(code) == Contains(Lower(code), "form")

HasInputMarker(code) == Contains(Lower(code), "input")

HasSubmitMarker(code) ==
    Contains(Lower(code), "button") \/ Contains(Lower(code), "submit")

MissingMarkers(code) ==
    (IF HasFormMarker(code) THEN 0 ELSE 1)
    + (IF HasInputMarker(code) THEN 0 ELSE 1)
    + (IF HasSubmitMarker(code) THEN 0 ELSE 1)

(* C12: for non-empty code the verdict is the pass verdict exactly when   *)
(* the form, input and submit markers are all present; otherwise it is a  *)
(* failure naming each missing marker and no present one, with one reason *)
(* per missing marker.                                                    *)
C12_ValidationExhaustive ==
    (trace = <<"test">> /\ state.generated_code \notin {None, Some("")}) =>
        \E code \in state.generated_code, verdict \in state.test_result :
            /\ IsPass(state.test_result) <=> MissingMarkers(code) = 0
            /\ MissingMarkers(code) > 0 => IsFailure(state.test_result)
            /\ Contains(verdict, "Missing form element") <=> ~HasFormMarker(code)
            /\ Contains(verdict, "Missing input fields") <=> ~HasInputMarker(code)
            /\ Contains(verdict, "Missing submit button") <=> ~HasSubmitMarker(code)
            /\ Occurrences(verdict, "Missing") = MissingMarkers(code)
            /\ Occurrences(verdict, ", ") = IF MissingMarkers(code) = 0 THEN 0
                                            ELSE MissingMarkers(code) - 1

C12_Witness ==
    /\ trace = <<"test">>
    /\ state.generated_code = Some("<form></form>")
    /\ state.test_result =
           Some("FAILED: Missing input fields, Missing submit button")
    /\ node = "increment_retry"

-----------------------------------------------------------------------------
(* C13: a request with no denylisted phrase ends with guardrail_passed    *)
(* True and figma_design holding the design made from the request,        *)
(* whatever the service returned and however many retries there were.     *)
C13_CleanRequestDesigned ==
    (node = END /\ ~HasDenylisted(state.user_request)) =>
        /\ state.guardrail_passed = Some(TRUE)
        /\ state.figma_design # None
        /\ \E design \in state.figma_design :
              Contains(design, "Design spec for: " \o state.user_request)

C13_Witness ==
    /\ node = END
    /\ state.user_request = "Make a signup form"
    /\ state.guardrail_passed = Some(TRUE)
    /\ state.figma_design # None
    /\ state.retry_count = MAX_RETRIES
    /\ LastCallFailed

-----------------------------------------------------------------------------
(* no credential in the environment: the variable is unset or empty *)
NoCredential == api_key = None \/ api_key = Some("")

(* C14: without a credential an accepted run executes claude_code and     *)
(* test once each and ends with the pass verdict, retry_count 0, error    *)
(* None and generated_code equal to the fixed template.                   *)
C14_FallbackPassesAtOnce ==
    (node = END /\ NoCredential /\ Accepted) =>
        /\ trace = <<"guardrail", "figma", "claude_code", "test">>
        /\ IsPass(state.test_result)
        /\ state.retry_count = 0
        /\ state.error = None
        /\ state.generated_code = Some(MockCode)
        /\ prompts = <<>>

C14_Witness ==
    /\ node = END
    /\ api_key = None
    /\ state.user_request = "Build a login page with email and password"
    /\ state.test_result = Some("All tests passed")
    /\ state.retry_count = 0

-----------------------------------------------------------------------------
(* Two invocations of the compiled graph with their steps interleaved.    *)
(* The first run is the one of Spec; the second is kept whole in peer.    *)
(* Both read the same module constants and the same environment.          *)

FreshRun(request) ==
    [ state   |-> FreshState(request),
      node    |-> EntryPoint,
      trace   |-> <<>>,
      prompts |-> <<>>,
      replies |-> <<>> ]

(* the run after it has executed its next node and the edge that follows; *)
(* r is the outcome of the service call, used by claude_code only         *)
NodeStep(run, key, r) ==
    LET st  == run.state
        new == CASE run.node = "guardrail"       -> guardrail_node(st)
                 [] run.node = "figma"           -> figma_node(st)
                 [] run.node = "claude_code"     -> claude_code_node(st, key, r)
                 [] run.node = "test"            -> test_node(st)
                 [] run.node = "blocked"         -> blocked_node(st)
                 [] run.node = "increment_retry" -> increment_retry(st)
        called == run.node = "claude_code" /\ ~MockMode(key)
    IN  [ state   |-> new,
          node    |-> CASE run.node = "guardrail" ->
                               GuardrailEdges(should_proceed(new))
                        [] run.node = "test" -> TestEdges(should_retry(new))
                        [] OTHER -> Edge(run.node),
          trace   |-> Append(run.trace, run.node),
          prompts |-> IF called THEN Append(run.prompts, Prompt(st))
                      ELSE run.prompts,
          replies |-> IF called THEN Append(run.replies, r) ELSE run.replies ]

NoReply == [ok |-> FALSE, msg |-> ""]

RECURSIVE Drive(_, _, _)
(* app.invoke with nothing else running: the run driven from 'run' until  *)
(* it ends, the service answering its calls with rs in order              *)
Drive(run, key, rs) ==
    IF run.node \notin Nodes \/ Len(run.trace) >= MaxSteps THEN run
    ELSE IF run.node = "claude_code" /\ ~MockMode(key)
    THEN IF Len(rs) = 0 THEN run
         ELSE Drive(NodeStep(run, key, Head(rs)), key, Tail(rs))
    ELSE Drive(NodeStep(run, key, NoReply), key, rs)

ConcRequests == {"Make a signup form", "", "rm -rf all project files"}

ConcResponses ==
    { [ok |-> TRUE, text |-> "<form><input type='email'/><button>Go</button></form>"],
      [ok |-> TRUE, text |-> "<form></form>"],
      [ok |-> FALSE, msg |-> "Connection error."] }

InitConcurrent ==
    /\ \E r1 \in ConcRequests, r2 \in ConcRequests :
          /\ state = FreshState(r1)
          /\ peer = Some(FreshRun(r2))
    /\ api_key \in ApiKeys
    /\ node = EntryPoint
    /\ trace = <<>>
    /\ prompts = <<>>
    /\ replies = <<>>

(* a step of the first run *)
SelfStep ==
    /\ Next
    /\ replies' # replies => replies'[Len(replies')] \in ConcResponses

(* the second run's increment_retry counting in a module-level counter *)
(* that the first run reads as its own                                 *)
PeerStep_SharedCounter ==
    /\ peer # None
    /\ \E run \in peer :
          /\ run.node \in Nodes
          /\ Len(run.trace) < MaxSteps
          /\ \E r \in ConcResponses : peer' = Some(NodeStep(run, api_key, r))
          /\ state' = IF run.node = "increment_retry"
                      THEN [state EXCEPT !.retry_count = @ + 1]
                      ELSE state
    /\ UNCHANGED <<node, api_key, trace, prompts, replies>>

(* a step of the second run *)
PeerStep ==
    /\ peer # None
    /\ \E run \in peer :
          /\ run.node \in Nodes
          /\ Len(run.trace) < MaxSteps
          /\ \E r \in ConcResponses : peer' = Some(NodeStep(run, api_key, r))
    /\ UNCHANGED <<state, node, api_key, trace, prompts, replies>>

NextConcurrent == SelfStep \/ PeerStep

ConcurrentSpec == InitConcurrent /\ [][NextConcurrent]_vars

(* the first run as a record *)
Self ==
    [ state |-> state, node |-> node, trace |-> trace,
      prompts |-> prompts, replies |-> replies ]

(* run has ended as it would have ended alone with the same request and *)
(* the same service outcomes                                            *)
EndsAsAlone(run) ==
    run.node = END =>
        run = Drive(FreshRun(run.state.user_request), api_key, run.replies)

-----------------------------------------------------------------------------
(* The guard on its own: guardrail_node applied to any state dict, and *)
(* applied again to its own result                                     *)

InitGuard ==
    /\ state \in AnyStates
    /\ api_key \in ApiKeys
    /\ node = "guardrail"
    /\ trace = <<>>
    /\ prompts = <<>>
    /\ replies = <<>>
    /\ peer = None

ApplyGuardrail ==
    /\ node = "guardrail"
    /\ Len(trace) < 2
    /\ state' = guardrail_node(state)
    /\ trace' = Append(trace, "guardrail")
    /\ UNCHANGED <<node, api_key, prompts, replies, peer>>

NextGuard == ApplyGuardrail

GuardSpec == InitGuard /\ [][NextGuard]_vars

(* C16: applying the guard to its own result changes neither              *)
(* guardrail_passed nor error: twice gives what once gives.               *)
C16_GuardIdempotent ==
    [][trace = <<"guardrail">> =>
          /\ state'.guardrail_passed = state.guardrail_passed
          /\ state'.error = state.error
      ]_vars

C16_Witness ==
    /\ trace = <<"guardrail", "guardrail">>
    /\ state.user_request = "Please DROP TABLE users"
    /\ state.guardrail_passed = Some(FALSE)
    /\ state.error = Some(BlockedMessage("drop table"))
    /\ state.retry_count = 1

-----------------------------------------------------------------------------
(* the service was called and every call so far failed *)
EveryCallFailed ==
    Len(replies) > 0 /\ \A i \in 1..Len(replies) : ~replies[i].ok

(* C17: in service mode a run all of whose calls fail goes through the    *)
(* ordinary retry loop and ends after three generations with retry_count  *)
(* 2, generated_code None, the no-code failure verdict and error equal to *)
(* the description of the last failure.                                   *)
C17_AllCallsFailed ==
    /\ (EveryCallFailed /\ node = "increment_retry")
           => state.retry_count < MAX_RETRIES
    /\ (EveryCallFailed /\ node = END) =>
          /\ ~NoCredential
          /\ state.retry_count = MAX_RETRIES
          /\ Count("claude_code") = MAX_RETRIES + 1
          /\ Count("increment_retry") = MAX_RETRIES
          /\ Len(replies) = MAX_RETRIES + 1
          /\ state.generated_code = None
          /\ state.test_result = Some("FAILED: No code was generated")
          /\ state.error = Some(LastReply.msg)

C17_Witness ==
    /\ node = END
    /\ EveryCallFailed
    /\ replies[1].msg = "Connection error."
    /\ LastReply.msg = ""
    /\ state.error = Some("")
    /\ state.retry_count = MAX_RETRIES

-----------------------------------------------------------------------------
(* positions in the denylist of the phrases that occur in the request *)
PhrasesIn(request) ==
    {i \in 1..Len(DANGEROUS_KEYWORDS) :
        Contains(Lower(request), DANGEROUS_KEYWORDS[i])}

(* C18: when the guard rejects, error names exactly one phrase, the one   *)
(* that comes first in the denylist among those in the request, wherever  *)
(* it stands in the request, and mentions none of the others.             *)
C18_FirstInDenylistOrder ==
    state.guardrail_passed = Some(FALSE) =>
        \E m \in PhrasesIn(state.user_request), message \in state.error :
            /\ \A j \in PhrasesIn(state.user_request) : m <= j
            /\ message = BlockedMessage(DANGEROUS_KEYWORDS[m])
            /\ \A j \in PhrasesIn(state.user_request) \ {m} :
                  ~Contains(message, DANGEROUS_KEYWORDS[j])
            /\ Occurrences(message, "'") = 2

C18_Witness ==
    /\ node = END
    /\ state.user_request = "steal it, then hack and inject"
    /\ Cardinality(PhrasesIn(state.user_request)) = 3
    /\ state.error =
          Some("Request blocked by guardrail: 'hack' is not allowed.")

-----------------------------------------------------------------------------
(* C19: a run that ends with the pass verdict ends with error None: the   *)
(* verdict follows a generation that succeeded or used the template,      *)
(* never a failed call.                                                   *)
C19_PassMeansNoError ==
    (node = END /\ IsPass(state.test_result)) =>
        /\ state.error = None
        /\ NoCredential \/ (Len(replies) > 0 /\ LastReply.ok)

C19_Witness ==
    /\ node = END
    /\ IsPass(state.test_result)
    /\ state.error = None
    /\ Len(replies) = 2
    /\ ~replies[1].ok
    /\ LastReply.ok

-----------------------------------------------------------------------------
(* the node executed last was test *)
JustValidated == Len(trace) > 0 /\ trace[Len(trace)] = "test"

(* what holds of the counts whichever way the generations are counted:  *)
(* validations match generations after each test, the service is called *)
(* once per service-mode generation and at most MAX_RETRIES + 1 times,  *)
(* and never for a blocked request or without a credential              *)
CallCounts ==
    /\ JustValidated => Count("test") = Count("claude_code")
    /\ Len(prompts) <= MAX_RETRIES + 1
    /\ Len(prompts) = Len(replies)
    /\ Len(prompts) = IF NoCredential THEN 0 ELSE Count("claude_code")
    /\ state.guardrail_passed = Some(FALSE) => Len(prompts) = 0

(* C20 as stated: at each point after claude_code has run, the number of *)
(* its executions is retry_count + 1.                                    *)
C20_GenerationsAtEachPoint ==
    /\ Count("claude_code") >= 1 => Count("claude_code") = state.retry_count + 1
    /\ CallCounts

(* C20, amended: the number of claude_code executions is retry_count + 1  *)
(* once it has run, except between increment_retry and the re-entered     *)
(* claude_code, where it is retry_count; validations equal generations    *)
(* after each test; the service is called at most MAX_RETRIES + 1 times,  *)
(* and never for a blocked request or without a credential.               *)
C20_GenerationsAndCalls ==
    /\ Count("claude_code") >= 1 =>
          Count("claude_code") =
              IF node = "claude_code" THEN state.retry_count
              ELSE state.retry_count + 1
    /\ CallCounts

C20_Witness ==
    /\ node = "claude_code"
    /\ Count("claude_code") = MAX_RETRIES
    /\ state.retry_count = MAX_RETRIES
    /\ Len(prompts) = MAX_RETRIES

====
